---- MODULE Spec2Model ----
(***************************************************************************)
(* Model of src/voice.py: the Q&A extraction loop (lines 79-91) and the    *)
(* interview simulation loop with its two narration routines, speak and    *)
(* speak_ai (lines 93-170).                                                *)
(*                                                                         *)
(* A string is a sequence of one-character strings, so that strip,         *)
(* startswith and replace are computed character by character as Python    *)
(* computes them.  The only whitespace character of the model is " ".      *)
(***************************************************************************)
EXTENDS Integers, Sequences, FiniteSets, TLC

\* ------------------------------------------------------------------ bounds
\* Longest text, in lines, of the extraction specification.
MaxLines == 4
\* Most Q/A pairs in a document of the session specification.
MaxPairs == 5
\* Largest thinking time explored (the slider itself goes up to PauseMax).
PauseCap == 6

\* ------------------------------------------------------- program constants
PauseMin == 5
PauseMax == 20
QuestionsMin == 3
QuestionsMax == 15
QuestionsDefault == 5

\* --------------------------------------------------------- string helpers
Min(x, y) == IF x <= y THEN x ELSE y
Max(x, y) == IF x >= y THEN x ELSE y

IsSpace(c) == c = " "

\* str.lstrip(): drop leading whitespace.
RECURSIVE LStrip(_)
LStrip(s) == IF s # <<>> /\ IsSpace(Head(s)) THEN LStrip(Tail(s)) ELSE s

\* str.rstrip(): drop trailing whitespace.
RECURSIVE RStrip(_)
RStrip(s) ==
    IF s # <<>> /\ IsSpace(s[Len(s)]) THEN RStrip(SubSeq(s, 1, Len(s) - 1)) ELSE s

\* str.strip()
Strip(s) == RStrip(LStrip(s))

\* str.startswith(p)
StartsWith(s, p) == Len(s) >= Len(p) /\ SubSeq(s, 1, Len(p)) = p

\* str.replace(old, ""): every non-overlapping occurrence of old, scanning
\* from the left, is removed, wherever it stands in the string.
RECURSIVE RemoveAll(_, _)
RemoveAll(s, old) ==
    IF Len(s) < Len(old) THEN s
    ELSE IF SubSeq(s, 1, Len(old)) = old
         THEN RemoveAll(SubSeq(s, Len(old) + 1, Len(s)), old)
         ELSE <<Head(s)>> \o RemoveAll(Tail(s), old)

\* The two markers of the line convention.
MarkQ == <<"Q", ":">>
MarkA == <<"A", ":">>

\* Python truth value of a string: non-empty (a string of blanks is true).
Truthy(s) == s # <<>>

\* line.strip().startswith("Q:")  /  line.strip().startswith("A:")
IsQLine(line) == StartsWith(Strip(line), MarkQ)
IsALine(line) == StartsWith(Strip(line), MarkA)

\* line.replace("Q:", "").strip()  /  line.replace("A:", "").strip()
QuestionOf(line) == Strip(RemoveAll(line, MarkQ))
AnswerOf(line) == Strip(RemoveAll(line, MarkA))

\* not text.strip(): every line of the text is blank.
IsBlankText(t) == \A k \in 1..Len(t) : Strip(t[k]) = <<>>

\* ------------------------------------------------------------------ inputs
\* The lines the extraction specification draws its texts from.
Lines ==
    { <<>>,                               \* ""
      <<" ">>,                            \* " "
      <<"Q", ":", " ", "x">>,             \* "Q: x"
      <<" ", "Q", ":", "w", " ">>,        \* " Q:w "
      <<"Q", ":">>,                       \* "Q:"
      <<"A", ":", " ", "y">>,             \* "A: y"
      <<"A", ":">>,                       \* "A:"
      <<"z">>,                            \* "z"
      <<"Q", ":", "x", "Q", ":">>,        \* "Q:xQ:"
      <<"A", ":", "A", ":", "y">> }       \* "A:A:y"

\* text.split("\n") always yields at least one line.
Texts == UNION { [1..n -> Lines] : n \in 1..MaxLines }

\* ------------------------------------------------------------------- state
VARIABLES
    text,                  \* text.split("\n"): the lines of the uploaded document
    pc,                    \* position of the script run
    idx,                   \* 1-based position of the extraction loop in text
    q, a,                  \* the question / answer being accumulated
    qa_pairs,              \* the extracted pairs, <<question, answer>>
    q_src,                 \* history: index of the line q was taken from (0: none)
    pair_src,              \* history: for each pair, the index of its Q: line
    a_src,                 \* history: indices of the lines a was built from
    pair_asrc,             \* history: for each pair, the lines its answer was built from
    report,                \* the status message shown to the user
    use_ai_voice,          \* the "Use AI Voice" toggle
    ELEVENLABS_AVAILABLE,  \* whether the elevenlabs import succeeded
    IS_CLOUD,              \* "STREAMLIT_SERVER_RUNNING" in os.environ
    pause_duration,        \* thinking-time slider
    num_questions,         \* number-of-questions slider
    i,                     \* 0-based index of the simulation loop
    utt,                   \* the utterance in hand: "question" or "answer"
    sec,                   \* seconds left in the countdown
    progress,              \* value of the progress bar
    tmpfiles,              \* temporary .mp3 files that exist on disk
    outcome,               \* how the narration of the utterance in hand went
    warning,               \* the warning shown for the utterance in hand
    rendered,              \* where the audio of the utterance in hand went
    voice,                 \* the routine that narrated the utterance in hand
    processed,             \* history: the pairs whose loop body has finished
    announced,             \* history: number of question/answer texts displayed
    narrated,              \* history: number of narration calls made
    ticks,                 \* history: number of countdown ticks displayed
    paths,                 \* history: the places audio has been sent to
    voices,                \* history: the narration routines that have been called
    log                    \* history: the steps of the simulation, <<kind, index, seconds>>

extractVars == <<text, idx, q, a, qa_pairs, q_src, pair_src, a_src, pair_asrc>>
envVars == <<use_ai_voice, ELEVENLABS_AVAILABLE, IS_CLOUD>>
configVars == <<pause_duration, num_questions>>
sessionVars ==
    <<i, utt, sec, progress, tmpfiles, outcome, warning, rendered, voice, processed,
      announced, narrated, ticks, paths, voices, log>>
vars == <<pc, report, extractVars, envVars, configVars, sessionVars>>

\* The state of a script run that has read the upload and nothing else.
InitRun ==
    /\ pc = "check_text"
    /\ idx = 1
    /\ q = <<>>
    /\ a = <<>>
    /\ qa_pairs = <<>>
    /\ q_src = 0
    /\ pair_src = <<>>
    /\ a_src = <<>>
    /\ pair_asrc = <<>>
    /\ report = "none"
    /\ pause_duration = 0
    /\ num_questions = 0
    /\ i = 0
    /\ utt = "none"
    /\ sec = 0
    /\ progress = 0
    /\ tmpfiles = {}
    /\ outcome = "none"
    /\ warning = "none"
    /\ rendered = "none"
    /\ voice = "none"
    /\ processed = <<>>
    /\ announced = 0
    /\ narrated = 0
    /\ ticks = 0
    /\ paths = {}
    /\ voices = {}
    /\ log = <<>>

\* ------------------------------------------------------------ extraction
\* if not text.strip(): st.error(...); st.stop()
CheckText ==
    /\ pc = "check_text"
    /\ IF IsBlankText(text)
       THEN /\ report' = "no_readable_text"
            /\ pc' = "stopped"
       ELSE /\ report' = report
            /\ pc' = "extract"
    /\ UNCHANGED <<extractVars, envVars, configVars, sessionVars>>

\* A slip that would put the new pair in front of the list.
FinalizePair_front(pairs, qq, aa) == <<<<Strip(qq), Strip(aa)>>>> \o pairs

\* qa_pairs.append((q.strip(), a.strip()))
FinalizePair(pairs, qq, aa) == Append(pairs, <<Strip(qq), Strip(aa)>>)

\* if q and a:
PairReady(qq, aa) == Truthy(qq) /\ Truthy(aa)

\* a += <content> + " "
Extend(aa, content) == aa \o content \o <<" ">>

\* One iteration of "for line in text.split("\n")".
ExtractLine ==
    /\ pc = "extract"
    /\ idx <= Len(text)
    /\ LET line == text[idx] IN
       IF IsQLine(line)
       THEN /\ IF PairReady(q, a)
               THEN /\ qa_pairs' = FinalizePair(qa_pairs, q, a)
                    /\ pair_src' = Append(pair_src, q_src)
                    /\ pair_asrc' = Append(pair_asrc, a_src)
                    /\ a' = <<>>
                    /\ a_src' = <<>>
               ELSE UNCHANGED <<qa_pairs, pair_src, pair_asrc, a, a_src>>
            /\ q' = QuestionOf(line)
            /\ q_src' = idx
       ELSE IF IsALine(line)
       THEN /\ a' = Extend(a, AnswerOf(line))
            /\ a_src' = Append(a_src, idx)
            /\ UNCHANGED <<q, q_src, qa_pairs, pair_src, pair_asrc>>
       ELSE IF Truthy(a)
       THEN /\ a' = Extend(a, Strip(line))
            /\ a_src' = Append(a_src, idx)
            /\ UNCHANGED <<q, q_src, qa_pairs, pair_src, pair_asrc>>
       ELSE UNCHANGED <<q, q_src, a, qa_pairs, pair_src, a_src, pair_asrc>>
    /\ idx' = idx + 1
    /\ UNCHANGED <<text, pc, report, envVars, configVars, sessionVars>>

\* After the loop: "if q and a: qa_pairs.append(...)".
ExtractEnd ==
    /\ pc = "extract"
    /\ idx > Len(text)
    /\ IF PairReady(q, a)
       THEN /\ qa_pairs' = FinalizePair(qa_pairs, q, a)
            /\ pair_src' = Append(pair_src, q_src)
            /\ pair_asrc' = Append(pair_asrc, a_src)
       ELSE UNCHANGED <<qa_pairs, pair_src, pair_asrc>>
    /\ pc' = "extracted"
    /\ UNCHANGED <<text, idx, q, a, q_src, a_src, report, envVars, configVars, sessionVars>>

\* The extraction loop on its own, over every text of up to MaxLines lines.
\* The environment flags are not read before the simulation starts.
InitExtract ==
    /\ text \in Texts
    /\ use_ai_voice = FALSE
    /\ ELEVENLABS_AVAILABLE = FALSE
    /\ IS_CLOUD = FALSE
    /\ InitRun

NextExtract == CheckText \/ ExtractLine \/ ExtractEnd

SpecExtract == InitExtract /\ [][NextExtract]_vars

\* ------------------------------------------------- claims on the extraction
Range(f) == { f[k] : k \in DOMAIN f }

QLinesOf(t) == { k \in 1..Len(t) : IsQLine(t[k]) }

\* The text that follows the leading marker of a marked line, trimmed.
AfterMarker(line) == Strip(SubSeq(Strip(line), 3, Len(Strip(line))))

\* The first Q: line after line k, or one past the end of the text.
NextQ(t, k) ==
    IF \E j \in QLinesOf(t) : j > k
    THEN CHOOSE j \in QLinesOf(t) : j > k /\ \A m \in QLinesOf(t) : m > k => j <= m
    ELSE Len(t) + 1

\* Line k is followed, before the next Q: line, by an A: line with content.
HasAnswerContent(t, k) ==
    \E j \in (k + 1)..(NextQ(t, k) - 1) : IsALine(t[j]) /\ AfterMarker(t[j]) # <<>>

\* C5: once extraction has finished, a Q: line that is followed by no A: line
\* with non-empty content before the next Q: line or the end of the text is
\* the source of no pair.
C5_UnansweredQuestionYieldsNoPair ==
    pc = "extracted" =>
        \A k \in QLinesOf(text) :
            ~HasAnswerContent(text, k) => k \notin Range(pair_src)

\* C6: every pair in the list has a question and an answer that are both
\* non-empty after trimming.
C6_PairsNonEmpty ==
    \A k \in 1..Len(qa_pairs) :
        Strip(qa_pairs[k][1]) # <<>> /\ Strip(qa_pairs[k][2]) # <<>>

\* C7: each pair's question comes from a Q: line of its own, the pairs stand
\* in the order of those lines, and there are no more pairs than Q: lines.
C7_OrderPreserving ==
    /\ Len(pair_src) = Len(qa_pairs)
    /\ \A k \in 1..Len(qa_pairs) :
          /\ pair_src[k] \in QLinesOf(text)
          /\ qa_pairs[k][1] = QuestionOf(text[pair_src[k]])
    /\ \A k1, k2 \in 1..Len(pair_src) : k1 < k2 => pair_src[k1] < pair_src[k2]
    /\ \E f \in [1..Len(qa_pairs) -> 1..Len(text)] :
          /\ \A k \in 1..Len(qa_pairs) :
                f[k] \in QLinesOf(text) /\ qa_pairs[k][1] = QuestionOf(text[f[k]])
          /\ \A k1, k2 \in 1..Len(qa_pairs) : k1 < k2 => f[k1] < f[k2]
    /\ Len(qa_pairs) <= Cardinality(QLinesOf(text))

\* Two pairs with different questions have been extracted.
C7_Witness ==
    /\ pc = "extracted"
    /\ Len(qa_pairs) >= 2
    /\ qa_pairs[1][1] # qa_pairs[2][1]

\* ------------------------------------------------------ controls and start
\* The documents of the simulation specification: k well-formed pairs with
\* distinct letters, the empty document, and a document without markers.
Letter == <<"a", "b", "c", "d", "e", "f", "g", "h">>

RECURSIVE Document(_)
Document(k) ==
    IF k = 0 THEN <<>>
    ELSE Document(k - 1) \o << <<"Q", ":", " ", Letter[k]>>, <<"A", ":", " ", Letter[k]>> >>

SessionTexts ==
    { Document(k) : k \in 1..MaxPairs } \cup { << <<>> >>, << <<"z">> >> }

\* st.slider(label, lo, hi, dflt): the widget widens its range until
\* lo <= hi and the default lies inside it; any value of the range can be
\* returned, the default without any user action.
SliderValues(lo, hi, dflt) ==
    LET lo1 == Min(lo, hi)
        hi1 == Max(lo1, hi)
    IN  Min(dflt, lo1)..Max(dflt, hi1)

\* The thinking times explored.
PauseValues == PauseMin..Min(PauseCap, PauseMax)

\* A slip that would show the controls for an empty pair list too.
HasPairs_always(pairs) == TRUE

\* if qa_pairs:
HasPairs(pairs) == pairs # <<>>

\* st.success(...) and the three sliders.
ShowControls ==
    /\ pc = "extracted"
    /\ HasPairs(qa_pairs)
    /\ report' = "extracted_ok"
    /\ pause_duration' \in PauseValues
    /\ num_questions' \in
           SliderValues(QuestionsMin, Min(QuestionsMax, Len(qa_pairs)), QuestionsDefault)
    /\ pc' = "ready"
    /\ UNCHANGED <<extractVars, envVars, sessionVars>>

\* else: st.error("No Q&A pairs found ...")
ReportNoPairs ==
    /\ pc = "extracted"
    /\ ~HasPairs(qa_pairs)
    /\ report' = "no_pairs_found"
    /\ pc' = "stopped"
    /\ UNCHANGED <<extractVars, envVars, configVars, sessionVars>>

\* qa_pairs[:num_questions]
Slice(pairs, n) == SubSeq(pairs, 1, Min(n, Len(pairs)))

session_pairs == Slice(qa_pairs, num_questions)

\* The button is pressed: progress = st.progress(0) and the loop is entered.
StartSession ==
    /\ pc = "ready"
    /\ progress' = 0
    /\ i' = 0
    /\ IF session_pairs = <<>>
       THEN pc' = "finish" /\ utt' = utt
       ELSE pc' = "announce" /\ utt' = "question"
    /\ UNCHANGED <<paths, voices, log>>
    /\ UNCHANGED <<report, extractVars, envVars, configVars, sec, tmpfiles, outcome,
                   warning, rendered, voice, processed, announced, narrated, ticks>>

\* ---------------------------------------------------------------- narration
\* A slip that would go from either narration straight to the progress update.
AfterNarration_noCountdown(u) == "progress"

\* The step that follows the narration of an utterance.
AfterNarration(u) == IF u = "question" THEN "countdown" ELSE "progress"

\* A slip that would look at the toggle alone.
UsePremium_toggleOnly == use_ai_voice

\* if use_ai_voice and ELEVENLABS_AVAILABLE:
UsePremium == use_ai_voice /\ ELEVENLABS_AVAILABLE

\* A slip that would play on the device whatever the environment.
RenderPath_device == "device"

\* if IS_CLOUD: st.audio(...) else: play(...)
RenderPath == IF IS_CLOUD THEN "client" ELSE "device"

\* st.markdown / st.write of the question, or st.markdown of the answer.
Announce ==
    /\ pc = "announce"
    /\ announced' = announced + 1
    /\ pc' = "narrate"
    /\ log' = Append(log, <<"announce_" \o utt, i, 0>>)
    /\ UNCHANGED <<paths, voices>>
    /\ UNCHANGED <<report, extractVars, envVars, configVars, i, utt, sec, progress,
                   tmpfiles, outcome, warning, rendered, voice, processed, narrated,
                   ticks>>

\* speak_ai(text, speed): the whole call.  Everything after the availability
\* test runs inside one try block, so a failure of the request (credential,
\* network) or of the rendering ends in a warning.
SpeakAi ==
    /\ pc = "narrate"
    /\ UsePremium
    /\ narrated' = narrated + 1
    /\ voice' = "premium"
    /\ IF ~ELEVENLABS_AVAILABLE
       THEN /\ outcome' = "skipped"
            /\ warning' = "elevenlabs_missing"
            /\ rendered' = "none"
            /\ paths' = paths
       ELSE \E r \in {"played", "synth_failed", "play_failed"} :
            /\ outcome' = r
            /\ warning' = IF r = "played" THEN "none" ELSE "elevenlabs_error"
            /\ rendered' = IF r = "played" THEN RenderPath ELSE "none"
            /\ paths' = IF r = "played" THEN paths \cup {RenderPath} ELSE paths
    /\ voices' = voices \cup {"premium"}
    /\ log' = Append(log, <<"narrate_" \o utt, i, 0>>)
    /\ pc' = AfterNarration(utt)
    /\ sec' = IF utt = "question" THEN pause_duration ELSE sec
    /\ UNCHANGED <<report, extractVars, envVars, configVars, i, utt, progress, tmpfiles,
                   processed, announced, ticks>>

\* speak(text, speed) is entered: NamedTemporaryFile(delete=False) creates
\* the .mp3 file.
SpeakEnter ==
    /\ pc = "narrate"
    /\ ~UsePremium
    /\ narrated' = narrated + 1
    /\ voice' = "standard"
    /\ tmpfiles' = tmpfiles \cup {<<i, utt>>}
    /\ pc' = "speak_tts"
    /\ voices' = voices \cup {"standard"}
    /\ log' = Append(log, <<"narrate_" \o utt, i, 0>>)
    /\ paths' = paths
    /\ UNCHANGED <<report, extractVars, envVars, configVars, i, utt, sec, progress,
                   outcome, warning, rendered, processed, announced, ticks>>

\* tts = gTTS(text); tts.save(fp.name): the synthesis request, made before
\* the try block is entered.  An exception raised here leaves speak and the
\* simulation loop; the script run ends with it.
SynthesisFailed == [pc |-> "aborted", warning |-> "none"]

SpeakTts ==
    /\ pc = "speak_tts"
    /\ \E ok \in BOOLEAN :
          IF ok
          THEN /\ pc' = "speak_try"
               /\ UNCHANGED <<outcome, warning>>
          ELSE /\ outcome' = "synth_failed"
               /\ pc' = SynthesisFailed.pc
               /\ warning' = SynthesisFailed.warning
    /\ UNCHANGED <<paths, voices, log>>
    /\ UNCHANGED <<report, extractVars, envVars, configVars, i, utt, sec, progress,
                   tmpfiles, rendered, voice, processed, announced, narrated, ticks>>

\* A slip that would leave the playback error uncaught.
PlaybackFailed_uncaught == [pc |-> "aborted", warning |-> "none"]

\* except Exception as e: st.warning(f"Audio skipped: {e}")
PlaybackFailed == [pc |-> "speak_finally", warning |-> "audio_skipped"]

\* The try block of speak: decode, speed up, export, then render.
SpeakTry ==
    /\ pc = "speak_try"
    /\ \E ok \in BOOLEAN :
          IF ok
          THEN /\ outcome' = "played"
               /\ rendered' = RenderPath
               /\ paths' = paths \cup {RenderPath}
               /\ warning' = warning
               /\ pc' = "speak_finally"
          ELSE /\ outcome' = "play_failed"
               /\ rendered' = rendered
               /\ paths' = paths
               /\ warning' = PlaybackFailed.warning
               /\ pc' = PlaybackFailed.pc
    /\ UNCHANGED <<voices, log>>
    /\ UNCHANGED <<report, extractVars, envVars, configVars, i, utt, sec, progress,
                   tmpfiles, voice, processed, announced, narrated, ticks>>

\* finally: os.remove(fp.name), and speak returns.
SpeakFinally ==
    /\ pc = "speak_finally"
    /\ tmpfiles' = tmpfiles \ {<<i, utt>>}
    /\ pc' = AfterNarration(utt)
    /\ sec' = IF utt = "question" THEN pause_duration ELSE sec
    /\ UNCHANGED <<paths, voices, log>>
    /\ UNCHANGED <<report, extractVars, envVars, configVars, i, utt, progress, outcome,
                   warning, rendered, voice, processed, announced, narrated, ticks>>

\* ------------------------------------------------- countdown and progress
\* One pass of "for sec in range(pause_duration, 0, -1)": st.info shows the
\* seconds left, time.sleep(1).
Tick ==
    /\ pc = "countdown"
    /\ sec > 0
    /\ ticks' = ticks + 1
    /\ sec' = sec - 1
    /\ log' = Append(log, <<"tick", i, sec>>)
    /\ UNCHANGED <<paths, voices>>
    /\ UNCHANGED <<pc, report, extractVars, envVars, configVars, i, utt, progress,
                   tmpfiles, outcome, warning, rendered, voice, processed, announced,
                   narrated>>

\* A slip that would end the countdown one tick early.
CountdownOver_early(s) == s <= 1

\* range(pause_duration, 0, -1) is exhausted.
CountdownOver(s) == s = 0

\* The countdown is over; the answer is the utterance in hand.
CountdownEnd ==
    /\ pc = "countdown"
    /\ CountdownOver(sec)
    /\ utt' = "answer"
    /\ outcome' = "none"
    /\ warning' = "none"
    /\ rendered' = "none"
    /\ voice' = "none"
    /\ pc' = "announce"
    /\ UNCHANGED <<paths, voices, log>>
    /\ UNCHANGED <<report, extractVars, envVars, configVars, i, sec, progress, tmpfiles,
                   processed, announced, narrated, ticks>>

\* A slip that would round to the nearest integer instead of truncating.
Percent_rounded(done, n) == (done * 200 + n) \div (2 * n)

\* int(((i + 1) / num_questions) * 100): the float quotient times 100,
\* truncated; it equals the integer quotient for every num_questions the
\* slider can return.
Percent(done, n) == (done * 100) \div n

\* progress.progress(...), st.markdown("---"), and the loop goes on to the
\* next pair or ends.
Progress ==
    /\ pc = "progress"
    /\ progress' = Percent(i + 1, num_questions)
    /\ processed' = Append(processed, session_pairs[i + 1])
    /\ outcome' = "none"
    /\ warning' = "none"
    /\ rendered' = "none"
    /\ voice' = "none"
    /\ IF i + 1 < Len(session_pairs)
       THEN /\ i' = i + 1
            /\ utt' = "question"
            /\ pc' = "announce"
       ELSE /\ i' = i
            /\ utt' = "none"
            /\ pc' = "finish"
    /\ log' = Append(log, <<"progress", i, 0>>)
    /\ UNCHANGED <<paths, voices>>
    /\ UNCHANGED <<report, extractVars, envVars, configVars, sec, tmpfiles, announced,
                   narrated, ticks>>

\* st.success("Interview Simulation Completed! ...")
Complete ==
    /\ pc = "finish"
    /\ report' = "completed"
    /\ pc' = "completed"
    /\ log' = Append(log, <<"completed", i, 0>>)
    /\ UNCHANGED <<extractVars, envVars, configVars, i, utt, sec, progress, tmpfiles,
                   outcome, warning, rendered, voice, processed, announced, narrated,
                   ticks, paths, voices>>

\* -------------------------------------------------------- the whole script
Init ==
    /\ text \in SessionTexts
    /\ use_ai_voice \in BOOLEAN
    /\ ELEVENLABS_AVAILABLE \in BOOLEAN
    /\ IS_CLOUD \in BOOLEAN
    /\ InitRun

Next ==
    \/ CheckText
    \/ ExtractLine
    \/ ExtractEnd
    \/ ShowControls
    \/ ReportNoPairs
    \/ StartSession
    \/ Announce
    \/ SpeakAi
    \/ SpeakEnter
    \/ SpeakTts
    \/ SpeakTry
    \/ SpeakFinally
    \/ Tick
    \/ CountdownEnd
    \/ Progress
    \/ Complete

Spec == Init /\ [][Next]_vars

\* ------------------------------------------------- claims on the simulation
\* The narration of the utterance in hand has returned to the loop.
NarrationReturned == utt \in {"question", "answer"} /\ pc = AfterNarration(utt)

\* C1: a synthesis failure is answered by a warning, the utterance's audio is
\* skipped, the loop goes on with the step after the narration, and the run
\* is never aborted.
C1_SynthesisFailureNeverAborts ==
    /\ outcome = "synth_failed" =>
          warning # "none" /\ rendered = "none" /\ NarrationReturned
    /\ pc # "aborted"

\* C2: outside a call of speak no temporary audio file exists.
C2_TempFilesDeleted ==
    pc \notin {"speak_tts", "speak_try", "speak_finally"} => tmpfiles = {}

\* Premium synthesis is not to be had for the utterance in hand: the library
\* is missing, or the request made by speak_ai failed.
PremiumUnavailable ==
    ~ELEVENLABS_AVAILABLE \/ (voice = "premium" /\ outcome = "synth_failed")

\* C3: with the Premium voice requested and Premium synthesis unavailable,
\* the utterance has been narrated by the Standard routine when the loop
\* goes on, and the run is not aborted.
C3_PremiumFallsBackToStandard ==
    (use_ai_voice /\ PremiumUnavailable) =>
        /\ NarrationReturned /\ voice # "none" => voice = "standard"
        /\ pc # "aborted"

\* C4: a playback failure of the utterance in hand has produced a warning,
\* and the run is at the cleanup of speak or at the step that follows the
\* narration of that utterance; it is never aborted.
C4_PlaybackFailureContinues ==
    outcome = "play_failed" =>
        /\ warning \in {"audio_skipped", "elevenlabs_error"}
        /\ pc \in {"speak_finally", AfterNarration(utt)}
        /\ pc = "speak_finally" => voice = "standard"
        /\ utt \in {"question", "answer"}

\* The playback of an answer by speak has failed and the loop is at the
\* progress update of the same pair.
C4_Witness ==
    /\ outcome = "play_failed"
    /\ voice = "standard"
    /\ utt = "answer"
    /\ pc = "progress"

\* C8: the pairs processed are the first pairs of the list, never more than
\* min(num_questions, len(qa_pairs)), and exactly that many when the run has
\* ended.
C8_ProcessesFirstMinPairs ==
    /\ Len(processed) <= Min(num_questions, Len(qa_pairs))
    /\ processed = SubSeq(qa_pairs, 1, Len(processed))
    /\ pc \in {"finish", "completed", "aborted"} =>
          Len(processed) = Min(num_questions, Len(qa_pairs))

\* C9: the progress is 0 before the first pair is done, lies in 0..100, never
\* decreases, and is 100 once the last pair has been processed.
C9_ProgressReaches100 ==
    /\ [](/\ progress \in 0..100
          /\ processed = <<>> => progress = 0
          /\ pc \in {"finish", "completed"} => progress = 100)
    /\ [][progress' >= progress]_vars

\* The run has ended without pairs: the text is blank, or the extraction
\* found nothing.
EndedWithoutPairs ==
    \/ pc # "check_text" /\ IsBlankText(text)
    \/ pc \notin {"check_text", "extract", "extracted"} /\ qa_pairs = <<>>

\* Nothing of a simulation has happened.
NothingPlayed ==
    /\ announced = 0
    /\ narrated = 0
    /\ ticks = 0
    /\ tmpfiles = {}
    /\ report # "completed"
    /\ pc = "stopped"

\* C10 as stated: a run that ended without pairs has reported "no pairs
\* found" and nothing of a simulation has happened.
C10_ReportsNoPairsFound ==
    EndedWithoutPairs => report = "no_pairs_found" /\ NothingPlayed

\* C10, amended: a blank text is reported as "no readable text", a text
\* without pairs as "no pairs found"; in both cases nothing of a simulation
\* happens.
C10_NoSessionWithoutPairs ==
    EndedWithoutPairs =>
        /\ report = IF IsBlankText(text) THEN "no_readable_text" ELSE "no_pairs_found"
        /\ NothingPlayed

\* A text that is not blank has yielded no pair and the run has stopped.
C10_Witness ==
    /\ ~IsBlankText(text)
    /\ qa_pairs = <<>>
    /\ pc = "stopped"
    /\ report = "no_pairs_found"

\* C11: the playback target is fixed for the run and decides where every
\* utterance goes, in speak and in speak_ai alike: in the cloud audio is only
\* handed to the client, otherwise it is only played on the device.
C11_TargetDecidesRendering ==
    /\ [](/\ IS_CLOUD => paths \subseteq {"client"} /\ rendered # "device"
          /\ ~IS_CLOUD => paths \subseteq {"device"} /\ rendered # "client")
    /\ [][IS_CLOUD' = IS_CLOUD]_vars

\* A cloud run has completed two pairs or more and audio went to the client.
C11_Witness ==
    /\ IS_CLOUD
    /\ paths = {"client"}
    /\ pc = "completed"
    /\ Len(processed) >= 2

\* The steps of one pair, in the order of the loop body, with p ticks.
PairSteps(k, p) ==
    << <<"announce_question", k, 0>>, <<"narrate_question", k, 0>> >>
    \o [j \in 1..p |-> <<"tick", k, p + 1 - j>>]
    \o << <<"announce_answer", k, 0>>, <<"narrate_answer", k, 0>>, <<"progress", k, 0>> >>

\* The steps of the pairs 0..n-1, one pair after the other.
RECURSIVE PairsLog(_, _)
PairsLog(n, p) == IF n = 0 THEN <<>> ELSE PairsLog(n - 1, p) \o PairSteps(n - 1, p)

IsPrefix(s, t) == Len(s) <= Len(t) /\ s = SubSeq(t, 1, Len(s))

\* The log without the completion signal.
PairLog == SelectSeq(log, LAMBDA e : e[1] # "completed")

\* C12: the steps taken so far are an initial part of: for index 0, 1, ... in
\* turn, announce question, narrate question, countdown, announce answer,
\* narrate answer, progress; a completed run has taken all of them.
C12_StepsInOrder ==
    /\ IsPrefix(PairLog, PairsLog(Len(session_pairs), pause_duration))
    /\ pc = "completed" => PairLog = PairsLog(Len(session_pairs), pause_duration)

\* A run over two pairs or more has completed.
C12_Witness ==
    /\ pc = "completed"
    /\ Len(processed) >= 2
    /\ Len(log) > 2 * Len(PairSteps(0, pause_duration))

\* The ticks logged for pair k, and the ticks a countdown of p seconds shows.
TicksOf(l, k) == SelectSeq(l, LAMBDA e : e[1] = "tick" /\ e[2] = k)

Descending(k, p) == [j \in 1..p |-> <<"tick", k, p + 1 - j>>]

\* C13: the ticks of a pair show pause_duration, pause_duration - 1, ..., 1
\* in that order and no others, and when the answer of the pair is announced
\* or narrated all pause_duration ticks have been shown.
C13_CountdownBeforeAnswer ==
    /\ \A k \in 0..i : IsPrefix(TicksOf(log, k), Descending(k, pause_duration))
    /\ \A n \in 1..Len(log) :
          log[n][1] \in {"announce_answer", "narrate_answer"} =>
              TicksOf(SubSeq(log, 1, n), log[n][2]) = Descending(log[n][2], pause_duration)

\* The answer of the second pair is about to be narrated.
C13_Witness ==
    /\ pc = "narrate"
    /\ utt = "answer"
    /\ i = 1
    /\ ticks = 2 * pause_duration
    /\ pause_duration > PauseMin

\* ------------------------------------------------ the progress computation
\* The progress update of line 166 on its own, for every num_questions of
\* the slider's declared range and every index below it.
InitPercent ==
    /\ pc = "percent"
    /\ num_questions \in QuestionsMin..QuestionsMax
    /\ i \in 0..(num_questions - 1)
    /\ text = << <<>> >>
    /\ idx = 1
    /\ q = <<>>
    /\ a = <<>>
    /\ qa_pairs = <<>>
    /\ q_src = 0
    /\ pair_src = <<>>
    /\ a_src = <<>>
    /\ pair_asrc = <<>>
    /\ report = "none"
    /\ use_ai_voice = FALSE
    /\ ELEVENLABS_AVAILABLE = FALSE
    /\ IS_CLOUD = FALSE
    /\ pause_duration = PauseMin
    /\ utt = "answer"
    /\ sec = 0
    /\ progress = 0
    /\ tmpfiles = {}
    /\ outcome = "none"
    /\ warning = "none"
    /\ rendered = "none"
    /\ voice = "none"
    /\ processed = <<>>
    /\ announced = 0
    /\ narrated = 0
    /\ ticks = 0
    /\ paths = {}
    /\ voices = {}
    /\ log = <<>>

\* progress.progress(int(((i + 1) / num_questions) * 100))
PercentStep ==
    /\ pc = "percent"
    /\ progress' = Percent(i + 1, num_questions)
    /\ pc' = "percent_done"
    /\ UNCHANGED <<report, extractVars, envVars, configVars, i, utt, sec, tmpfiles,
                   outcome, warning, rendered, voice, processed, announced, narrated,
                   ticks, paths, voices, log>>

NextPercent == PercentStep

SpecPercent == InitPercent /\ [][NextPercent]_vars

\* round(num / den) as Python rounds: to the nearest integer, a tie to the
\* even one.
RoundNearest(num, den) ==
    LET f == num \div den
        r2 == 2 * (num - f * den)
    IN  IF r2 < den THEN f
        ELSE IF r2 > den THEN f + 1
        ELSE IF f % 2 = 0 THEN f ELSE f + 1

\* C14 as stated: the progress after index i is the percentage
\* (i + 1) / num_questions rounded to the nearest integer.
C14_ProgressIsRounded ==
    pc = "percent_done" => progress = RoundNearest((i + 1) * 100, num_questions)

\* C14, amended: the progress after index i is the percentage truncated, the
\* largest integer not above (i + 1) * 100 / num_questions.
C14_ProgressIsTruncated ==
    pc = "percent_done" =>
        /\ progress * num_questions <= (i + 1) * 100
        /\ (i + 1) * 100 < (progress + 1) * num_questions

\* Index 2 of 7 has been processed: 42.86 per cent is reported as 42.
C14_Witness ==
    /\ pc = "percent_done"
    /\ num_questions = 7
    /\ i = 2
    /\ progress = 42

\* ------------------------------------- further claims on the extraction
EndsWith(s, suffix) ==
    Len(s) >= Len(suffix) /\ SubSeq(s, Len(s) - Len(suffix) + 1, Len(s)) = suffix

\* C15: the question of every pair is the trimmed text after the leading Q:
\* of its line, and an A: line adds to the answer the trimmed text after its
\* leading A: and one space; a marker further inside the line is kept.
C15_OnlyLeadingMarkerRemoved ==
    /\ \A k \in 1..Len(qa_pairs) : qa_pairs[k][1] = AfterMarker(text[pair_src[k]])
    /\ (pc = "extract" /\ idx > 1 /\ IsALine(text[idx - 1])) =>
          EndsWith(a, AfterMarker(text[idx - 1]) \o <<" ">>)

\* The extraction loop as a function of the text: the body of the loop on
\* one line, the loop, and the append after it.
StepLine(st, line) ==
    IF IsQLine(line)
    THEN IF PairReady(st.q, st.a)
         THEN [q |-> QuestionOf(line), a |-> <<>>,
               pairs |-> FinalizePair(st.pairs, st.q, st.a)]
         ELSE [st EXCEPT !.q = QuestionOf(line)]
    ELSE IF IsALine(line)
    THEN [st EXCEPT !.a = Extend(st.a, AnswerOf(line))]
    ELSE IF Truthy(st.a)
    THEN [st EXCEPT !.a = Extend(st.a, Strip(line))]
    ELSE st

RECURSIVE ExtractFrom(_, _)
ExtractFrom(st, t) ==
    IF t = <<>> THEN st ELSE ExtractFrom(StepLine(st, Head(t)), Tail(t))

ExtractPairs(t) ==
    LET st == ExtractFrom([q |-> <<>>, a |-> <<>>, pairs |-> <<>>], t)
    IN  IF PairReady(st.q, st.a) THEN FinalizePair(st.pairs, st.q, st.a) ELSE st.pairs

\* The text with every blank line taken out.
WithoutBlankLines(t) == SelectSeq(t, LAMBDA l : Strip(l) # <<>>)

\* C16: blank lines never change the result: the pairs extracted from a text
\* are the pairs extracted from the same text without its blank lines.
C16_BlankLinesChangeNothing ==
    pc = "extracted" => qa_pairs = ExtractPairs(WithoutBlankLines(text))

\* The text a line adds to the answer in progress.
Contribution(line) == IF IsALine(line) THEN AnswerOf(line) ELSE Strip(line)

IsMarked(line) == IsQLine(line) \/ IsALine(line)

\* Line j carries text but no marker, and stands between a Q: line and the
\* first A: line that follows that Q: line.
PreAnswerLine(t, j) ==
    /\ ~IsMarked(t[j])
    /\ Strip(t[j]) # <<>>
    /\ \E k \in 1..(j - 1) :
          IsQLine(t[k]) /\ \A m \in (k + 1)..(j - 1) : ~IsMarked(t[m])
    /\ \E k \in (j + 1)..Len(t) :
          IsALine(t[k]) /\ \A m \in (j + 1)..(k - 1) : ~IsMarked(t[m])

\* C17: no answer of a pair is built from a line without marker that stands
\* between a Q: line and the first A: line following it.
C17_PreAnswerLinesDropped ==
    \A n \in 1..Len(pair_asrc) :
        \A m \in 1..Len(pair_asrc[n]) : ~PreAnswerLine(text, pair_asrc[n][m])

\* C20: the text in the answer of a pair comes only from lines after the
\* pair's own Q: line and before the next Q: line.
C20_AnswerFromOwnLines ==
    \A n \in 1..Len(pair_asrc) :
        \A m \in 1..Len(pair_asrc[n]) :
            LET j == pair_asrc[n][m] IN
            Contribution(text[j]) # <<>> =>
                pair_src[n] < j /\ j < NextQ(text, pair_src[n])

\* ------------------------------------ further claims on the simulation
\* How often an entry stands in the log.
Count(l, entry) == Len(SelectSeq(l, LAMBDA e : e = entry))

\* C18: every narration of a run is made by the same routine, speak_ai if
\* the toggle is on and the library was found at startup, speak otherwise;
\* each question and each answer announced is narrated by one call, no more.
C18_OneVoicePerSession ==
    LET expected == IF use_ai_voice /\ ELEVENLABS_AVAILABLE THEN "premium" ELSE "standard"
    IN  /\ voices \subseteq {expected}
        /\ voice \in {"none", expected}
        /\ narrated = Len(SelectSeq(log, LAMBDA e : e[1] \in {"narrate_question", "narrate_answer"}))
        /\ \A k \in 0..i : \A u \in {"question", "answer"} :
              /\ Count(log, <<"narrate_" \o u, k, 0>>) <= 1
              /\ (pc = "narrate" /\ utt = u /\ i = k)
                 \/ Count(log, <<"narrate_" \o u, k, 0>>) = Count(log, <<"announce_" \o u, k, 0>>)

\* The toggle is on, the library is missing, and speak has narrated the
\* first pair.
C18_Witness ==
    /\ use_ai_voice
    /\ ~ELEVENLABS_AVAILABLE
    /\ voices = {"standard"}
    /\ Len(processed) >= 1
    /\ narrated >= 2

\* C19: the completion signal is emitted at most once, it is the last step
\* of the run, and the step before it is the progress update of index
\* num_questions - 1, with no pair left unprocessed.
C19_CompletionAfterLastIndex ==
    LET n == Count(log, <<"completed", i, 0>>)
    IN  /\ Len(SelectSeq(log, LAMBDA e : e[1] = "completed")) <= 1
        /\ (report = "completed") <=> (n = 1)
        /\ n = 1 =>
              /\ log[Len(log)][1] = "completed"
              /\ Len(log) >= 2
              /\ log[Len(log) - 1] = <<"progress", num_questions - 1, 0>>
              /\ Len(processed) = Len(session_pairs)

====
